---- MODULE Spec2Model ----
(***************************************************************************)
(* Model of src/pipe_wire_monitor/pipe_wire_monitor.py: PipeWireGraph and  *)
(* PipeWireMonitor (run and its helpers).                                  *)
(*                                                                         *)
(* Encoding of the pw-dump JSON.  A Python str is a tuple of one-character *)
(* strings ("Node" is <<"N","o","d","e">>), so that `in` is real substring *)
(* containment.  A JSON object is a record with one field per key the code *)
(* reads; a field whose k is "absent" is a key that is not in the object,  *)
(* "null" is JSON null, "dict"/"list"/"int"/... is a value of that type.   *)
(* Volumes are hundredths (100 is 1.0).  An Optional[int] is a record      *)
(* [exc, some, n]: None has some = FALSE; exc names a raised exception.    *)
(***************************************************************************)
EXTENDS Integers, Sequences, FiniteSets, TLC

VARIABLES
    pw_dump,                  \* what the pw-dump subprocess yields: [ok, data]
    target_device_substring,  \* PipeWireMonitor.target_device_substring
    log_buffer,               \* PipeWireMonitor.log_buffer, a list of messages
    pc,                       \* position inside run
    graph,                    \* run's local graph (PipeWireGraph)
    target_node,              \* run's local target_node (<<>> is None)
    device_freq,              \* run's local device_freq
    relevant_sources,         \* run's local relevant_sources
    result,                   \* the string run returned: [status, rate, tooltip]
    history,                  \* the strings returned by the finished invocations
    exc,                      \* the exception that left run, "" if none
    arg,                      \* argument of a helper called on its own
    ret                       \* what that helper returned

vars == <<pw_dump, target_device_substring, log_buffer, pc, graph, target_node,
          device_freq, relevant_sources, result, history, exc, arg, ret>>

----------------------------------------------------------------------------
(* Python values *)

None == [exc |-> "", some |-> FALSE, n |-> 0]
Some(n) == [exc |-> "", some |-> TRUE, n |-> n]
Raise(e) == [exc |-> e, some |-> FALSE, n |-> 0]

\* Python truth value of an Optional[int]: None and 0 are false.
Truthy(v) == v.some /\ v.n # 0

\* needle in hay, for two str
Contains(needle, hay) ==
    \E i \in 0..(Len(hay) - Len(needle)) :
        SubSeq(hay, i + 1, i + Len(needle)) = needle

S_Node == <<"N", "o", "d", "e">>
S_Link == <<"L", "i", "n", "k">>
S_Unknown == <<"U", "n", "k", "n", "o", "w", "n", " ", "S", "o", "u", "r", "c", "e">>

----------------------------------------------------------------------------
(* JSON constructors *)

AbsentRate == [k |-> "absent", n |-> 0]
NullRate == [k |-> "null", n |-> 0]
IntRate(n) == [k |-> "int", n |-> n]
FloatRate(n) == [k |-> "float", n |-> n]
RangeRate(n) == [k |-> "range", n |-> n]
EmptyRange == [k |-> "range_empty", n |-> 0]

NoAudio == [k |-> "absent", rate |-> AbsentRate]
NullAudio == [k |-> "null", rate |-> AbsentRate]
Audio(r) == [k |-> "dict", rate |-> r]

Fmt(audio, rate) == [k |-> "dict", audio |-> audio, rate |-> rate]
NullFmt == [k |-> "null", audio |-> NoAudio, rate |-> AbsentRate]

AbsentVol == [k |-> "absent", x |-> 0]
Vol(x) == [k |-> "num", x |-> x]
AbsentChan == [k |-> "absent", xs |-> <<>>]
Chan(xs) == [k |-> "list", xs |-> xs]
NumChan(x) == [k |-> "num", xs |-> <<x>>]

PropSet(v, c) == [k |-> "dict", volume |-> v, channelVolumes |-> c]
NullPropSet == [k |-> "null", volume |-> AbsentVol, channelVolumes |-> AbsentChan]

AbsentGroup == [k |-> "absent", items |-> <<>>]
NullGroup == [k |-> "null", items |-> <<>>]
List(items) == [k |-> "list", items |-> items]

Params(f, e, p) == [k |-> "dict", Format |-> f, EnumFormat |-> e, Props |-> p]
AbsentParams ==
    [k |-> "absent", Format |-> AbsentGroup, EnumFormat |-> AbsentGroup, Props |-> AbsentGroup]
NullParams ==
    [k |-> "null", Format |-> AbsentGroup, EnumFormat |-> AbsentGroup, Props |-> AbsentGroup]

\* info.props: the three names run reads; <<>> is a key that is absent
Names(d, a, n) == [k |-> "dict", description |-> d, application |-> a, name |-> n]
AbsentNames == [k |-> "absent", description |-> <<>>, application |-> <<>>, name |-> <<>>]
NullNames == [k |-> "null", description |-> <<>>, application |-> <<>>, name |-> <<>>]

AbsentEnd == [k |-> "absent", n |-> 0]
End(n) == [k |-> "int", n |-> n]

\* info of a node: props, state ("None" when the key is absent), params
NodeInfo(names, state, params) ==
    [k |-> "dict", props |-> names, state |-> state, params |-> params,
     input |-> AbsentEnd, output |-> AbsentEnd]
\* info of a link: "output-node-id" and "input-node-id"
LinkInfo(out, inp) ==
    [k |-> "dict", props |-> AbsentNames, state |-> "None", params |-> AbsentParams,
     input |-> inp, output |-> out]
AbsentInfo ==
    [k |-> "absent", props |-> AbsentNames, state |-> "None", params |-> AbsentParams,
     input |-> AbsentEnd, output |-> AbsentEnd]
NullInfo ==
    [k |-> "null", props |-> AbsentNames, state |-> "None", params |-> AbsentParams,
     input |-> AbsentEnd, output |-> AbsentEnd]

\* one element of the dump: {"id": id, "type": type, "info": info}
Item(id, type, info) == [hasId |-> TRUE, id |-> id, type |-> type, info |-> info]
\* an element without "id"
NoIdItem(type, info) == [hasId |-> FALSE, id |-> 0, type |-> type, info |-> info]

----------------------------------------------------------------------------
(* dict.get with a {} default *)

\* node.get("info", {}): the object, {} when the key is absent
GetInfo(node) == IF node.info.k = "absent" THEN AbsentInfo ELSE node.info
\* info.get("props", {}), info.get("params", {})
GetProps(info) == IF info.props.k = "absent" THEN AbsentNames ELSE info.props
GetParams(info) == IF info.params.k = "absent" THEN AbsentParams ELSE info.params

\* "G" in params and params["G"]
GroupTruthy(g) == g.k = "list" /\ g.items # <<>>

----------------------------------------------------------------------------
(* PipeWireGraph *)

\* d[item["id"]] = item on a dict kept as the list of its values in insertion
\* order: a key already there keeps its place and takes the new value
DictPut(d, item) ==
    IF \E i \in 1..Len(d) : d[i].id = item.id
    THEN [i \in 1..Len(d) |-> IF d[i].id = item.id THEN item ELSE d[i]]
    ELSE Append(d, item)

RECURSIVE DictOf(_)
DictOf(items) ==
    IF items = <<>> THEN <<>>
    ELSE DictPut(DictOf(SubSeq(items, 1, Len(items) - 1)), items[Len(items)])

IsNodeItem(item) == Contains(S_Node, item.type)
IsLinkItem(item) == Contains(S_Link, item.type)

\* PipeWireGraph.__init__: [exc, nodes, links]; item["id"] of an element that
\* passes a filter and has no "id" raises KeyError
PipeWireGraph(graph_data) ==
    LET ns == SelectSeq(graph_data, IsNodeItem)
        ls == SelectSeq(graph_data, IsLinkItem)
    IN  IF \E i \in 1..Len(ns) : ~ns[i].hasId
        THEN [exc |-> "KeyError", nodes |-> <<>>, links |-> <<>>]
        ELSE IF \E i \in 1..Len(ls) : ~ls[i].hasId
        THEN [exc |-> "KeyError", nodes |-> <<>>, links |-> <<>>]
        ELSE [exc |-> "", nodes |-> DictOf(ns), links |-> DictOf(ls)]

----------------------------------------------------------------------------
(* PipeWireMonitor helpers *)

Msg(m, name, id, vals, txt) == [m |-> m, name |-> name, id |-> id, vals |-> vals, txt |-> txt]
NoId == [some |-> FALSE, n |-> 0]
\* node.get("id") as it is printed
IdOf(node) == [some |-> node.hasId, n |-> node.id]

\* a or b for two str
Or(a, b) == IF a # <<>> THEN a ELSE b

\* _get_node_descriptive_name: [exc, s]
_get_node_descriptive_name(node) ==
    IF node.info.k = "null" THEN [exc |-> "AttributeError", s |-> <<>>]
    ELSE IF GetInfo(node).props.k = "null" THEN [exc |-> "AttributeError", s |-> <<>>]
    ELSE LET props == GetProps(GetInfo(node))
         IN  [exc |-> "",
              s |-> Or(props.description, Or(props.application, Or(props.name, S_Unknown)))]

\* _find_node_by_name over graph.nodes.values(): <<>> is None, <<"raise">> an
\* AttributeError of node.get("info", {}).get("props", {}).get(...)
RECURSIVE FindFrom(_, _, _)
FindFrom(nodes, name, i) ==
    IF i > Len(nodes) THEN [exc |-> "", found |-> <<>>]
    ELSE IF nodes[i].info.k = "null" \/ GetInfo(nodes[i]).props.k = "null"
    THEN [exc |-> "AttributeError", found |-> <<>>]
    ELSE IF Contains(name, GetProps(GetInfo(nodes[i])).name)
    THEN [exc |-> "", found |-> <<nodes[i]>>]
    ELSE FindFrom(nodes, name, i + 1)

_find_node_by_name(g, name) == FindFrom(g.nodes, name, 1)

\* mutant of _extract_rate_from_value: only a direct int is a rate
ExtractDirectIntOnly(value) == IF value.k = "int" THEN Some(value.n) ELSE None

\* _extract_rate_from_value
_extract_rate_from_value(value) ==
    IF value.k = "range" THEN Some(value.n)
    ELSE IF value.k = "range_empty" THEN None
    ELSE IF value.k = "int" THEN Some(value.n)
    ELSE None

\* _get_node_sample_rate
_get_node_sample_rate(node) ==
    IF node.info.k = "null" THEN Raise("AttributeError")
    ELSE IF GetInfo(node).params.k = "null" THEN Raise("TypeError")
    ELSE LET params == GetParams(GetInfo(node))
         IN  IF GroupTruthy(params.Format)
             THEN LET format_info == params.Format.items[1]
                  IN  IF format_info.k = "null" THEN Raise("TypeError")
                      ELSE IF format_info.audio.k = "null" THEN Raise("AttributeError")
                      ELSE IF format_info.audio.k = "dict"
                      THEN _extract_rate_from_value(format_info.audio.rate)
                      ELSE _extract_rate_from_value(format_info.rate)
             ELSE IF GroupTruthy(params.EnumFormat)
             THEN IF params.EnumFormat.items[1].k = "null" THEN Raise("AttributeError")
                  ELSE _extract_rate_from_value(params.EnumFormat.items[1].rate)
             ELSE None

\* mutant of IsOne: a volume below 1.0 passes too
IsOneOrLess(vol) == vol <= 100

\* vol == 1.0 (prop_set["volume"] != 1.0 is its negation)
IsOne(vol) == vol = 100

\* the loop of _is_volume_at_100 over params["Props"], from entry i on
RECURSIVE VolumeLoop(_, _, _, _)
VolumeLoop(props, i, node_name, node_id) ==
    IF i > Len(props) THEN [exc |-> "", ok |-> TRUE, log |-> <<>>]
    ELSE LET prop_set == props[i]
         IN  IF prop_set.k = "null" THEN [exc |-> "TypeError", ok |-> FALSE, log |-> <<>>]
             ELSE IF prop_set.volume.k = "num" /\ ~IsOne(prop_set.volume.x)
             THEN [exc |-> "", ok |-> FALSE,
                   log |-> <<Msg("Volume is not 100% (value)", node_name, node_id,
                                 <<prop_set.volume.x>>, "")>>]
             ELSE IF prop_set.channelVolumes.k = "num"
             THEN [exc |-> "TypeError", ok |-> FALSE, log |-> <<>>]
             ELSE IF /\ prop_set.channelVolumes.k = "list"
                     /\ \E j \in 1..Len(prop_set.channelVolumes.xs) :
                            ~IsOne(prop_set.channelVolumes.xs[j])
             THEN [exc |-> "", ok |-> FALSE,
                   log |-> <<Msg("Volume is not 100% (values)", node_name, node_id,
                                 prop_set.channelVolumes.xs, "")>>]
             ELSE VolumeLoop(props, i + 1, node_name, node_id)

\* _is_volume_at_100: [exc, ok, log], log being the messages it logs
_is_volume_at_100(node) ==
    IF node.info.k = "null" THEN [exc |-> "AttributeError", ok |-> FALSE, log |-> <<>>]
    ELSE IF GetInfo(node).params.k = "null" THEN [exc |-> "TypeError", ok |-> FALSE, log |-> <<>>]
    ELSE LET params == GetParams(GetInfo(node))
         IN  IF ~GroupTruthy(params.Props) THEN [exc |-> "", ok |-> TRUE, log |-> <<>>]
             ELSE IF _get_node_descriptive_name(node).exc # ""
             THEN [exc |-> _get_node_descriptive_name(node).exc, ok |-> FALSE, log |-> <<>>]
             ELSE VolumeLoop(params.Props.items, 1, _get_node_descriptive_name(node).s,
                             IdOf(node))

\* mutant of SourceNodeIds: the two ends of a link taken for each other
SourceNodeIdsReversed(g, target_node_id) ==
    LET Into(link) == GetInfo(link).output = End(target_node_id)
        into == SelectSeq(g.links, Into)
    IN  [i \in 1..Len(into) |-> GetInfo(into[i]).input]

\* the values added to source_node_ids, in the order of graph.links: the
\* "output-node-id" of each link whose "input-node-id" is the target, None
\* (AbsentEnd) when the link has none
SourceNodeIds(g, target_node_id) ==
    LET Into(link) == GetInfo(link).input = End(target_node_id)
        into == SelectSeq(g.links, Into)
    IN  [i \in 1..Len(into) |-> GetInfo(into[i]).output]

(* source_node_ids is a set of CPython: an open-addressing hash table,
   iterated slot by slot.  Slot i of a table is table[i + 1].  A
   non-negative int (below 2^61 - 1) is its own hash.  The hash of None is
   the address of the None object and depends on the build and the run:
   None can land in any unused slot. *)
PySet_MINSIZE == 8
LINEAR_PROBES == 9
PERTURB_SHIFT == 5
Unused == [k |-> "unused", n |-> 0]
NewTable(size) == [i \in 1..size |-> Unused]
Mask(table) == Len(table) - 1
Used(table) == Cardinality({i \in 1..Len(table) : table[i] # Unused})
PutKey(table, i, key) == [table EXCEPT ![i + 1] = key]

\* the entries i, i + 1, ... i + probes: the first unused one, -1 if none
RECURSIVE LinearProbe(_, _, _)
LinearProbe(table, i, probes) ==
    IF table[i + 1] = Unused THEN i
    ELSE IF probes = 0 THEN -1
    ELSE LinearProbe(table, i + 1, probes - 1)

\* the probe sequence of set_add_entry and set_insert_clean: the unused slot
\* a key that is not in the table is put in
RECURSIVE Probe(_, _, _)
Probe(table, i, perturb) ==
    LET probes == IF i + LINEAR_PROBES <= Mask(table) THEN LINEAR_PROBES ELSE 0
        found == LinearProbe(table, i, probes)
        shifted == perturb \div (2 ^ PERTURB_SHIFT)
    IN  IF found >= 0 THEN found
        ELSE Probe(table, (i * 5 + 1 + shifted) % Len(table), shifted)

\* set_insert_clean: the tables a key that is not in the table can give
InsertClean(table, key) ==
    IF key.k = "int"
    THEN {PutKey(table, Probe(table, key.n % Len(table), key.n), key)}
    ELSE {PutKey(table, i, key) : i \in {j \in 0..Mask(table) : table[j + 1] = Unused}}

RECURSIVE NewSize(_, _)
NewSize(size, minused) == IF size > minused THEN size ELSE NewSize(2 * size, minused)

\* set_table_resize: the entries of the old table, slot by slot, inserted in
\* a new table
RECURSIVE Rehash(_, _, _)
Rehash(old, i, tables) ==
    IF i > Len(old) THEN tables
    ELSE IF old[i] = Unused THEN Rehash(old, i + 1, tables)
    ELSE Rehash(old, i + 1, UNION {InsertClean(t, old[i]) : t \in tables})
set_table_resize(table, minused) ==
    Rehash(table, 1, {NewTable(NewSize(PySet_MINSIZE, minused))})

\* set.add(key)
set_add_entry(table, key) ==
    IF \E i \in 1..Len(table) : table[i] = key THEN {table}
    ELSE IF (Used(table) + 1) * 5 < Mask(table) * 3 THEN InsertClean(table, key)
    ELSE UNION {set_table_resize(t, IF Used(t) > 50000 THEN Used(t) * 2 ELSE Used(t) * 4) :
                    t \in InsertClean(table, key)}

\* the tables that adding keys[i], keys[i + 1], ... to each table can give
RECURSIVE AddAll(_, _, _)
AddAll(keys, i, tables) ==
    IF i > Len(keys) THEN tables
    ELSE AddAll(keys, i + 1, UNION {set_add_entry(t, keys[i]) : t \in tables})

\* for node_id in source_node_ids if node_id in graph.nodes
InGraph(g, key) == key.k = "int" /\ \E i \in 1..Len(g.nodes) : g.nodes[i].id = key.n
NodeById(g, id) == g.nodes[CHOOSE i \in 1..Len(g.nodes) : g.nodes[i].id = id]
SourceNodes(g, table) ==
    LET Present(key) == InGraph(g, key)
        ids == SelectSeq(table, Present)
    IN  [i \in 1..Len(ids) |-> NodeById(g, ids[i].n)]

\* _get_connected_source_nodes: what the call can give, the exception it
\* raises (link.get("info", {}).get on a null info) or the list it returns
_get_connected_source_nodes(g, target_node_id) ==
    IF \E j \in 1..Len(g.links) : g.links[j].info.k = "null"
    THEN {[exc |-> "AttributeError", nodes |-> <<>>]}
    ELSE {[exc |-> "", nodes |-> SourceNodes(g, table)] :
            table \in AddAll(SourceNodeIds(g, target_node_id), 1, {NewTable(PySet_MINSIZE)})}

\* _filter_sources: [exc, nodes, log]
RECURSIVE _filter_sources(_)
_filter_sources(source_nodes) ==
    IF source_nodes = <<>> THEN [exc |-> "", nodes |-> <<>>, log |-> <<>>]
    ELSE LET n == Len(source_nodes)
             before == _filter_sources(SubSeq(source_nodes, 1, n - 1))
             node == source_nodes[n]
             log_name == _get_node_descriptive_name(node)
         IN  IF before.exc # "" THEN before
             ELSE IF log_name.exc # ""
             THEN [exc |-> log_name.exc, nodes |-> before.nodes, log |-> before.log]
             ELSE IF GetInfo(node).state # "running"
             THEN [exc |-> "", nodes |-> before.nodes,
                   log |-> Append(before.log,
                                  Msg("-> Filtering out non-running source", log_name.s,
                                      NoId, <<>>, GetInfo(node).state))]
             ELSE [exc |-> "", nodes |-> Append(before.nodes, node), log |-> before.log]

\* the three replace calls of _format_output on one str
RECURSIVE Escape(_)
Escape(s) ==
    IF s = <<>> THEN <<>>
    ELSE LET c == s[1]
             e == IF c = "&" THEN <<"&", "a", "m", "p", ";">>
                  ELSE IF c = "<" THEN <<"&", "l", "t", ";">>
                  ELSE IF c = ">" THEN <<"&", "g", "t", ";">>
                  ELSE <<c>>
         IN  e \o Escape(Tail(s))

\* _format_output: the status text and the tooltip made of the whole buffer
_format_output(log, color, text, rate) ==
    [color |-> color, text |-> text, rate |-> rate,
     tooltip |-> [i \in 1..Len(log) |-> [log[i] EXCEPT !.name = Escape(@)]]]

----------------------------------------------------------------------------
(* PipeWireMonitor.run, one action per numbered step of its body *)

\* invocations of run on the one monitor
MaxRuns == 2

NoFreq == None
Locals == <<graph, target_node, device_freq, relevant_sources>>
Helper == <<arg, ret>>
Inputs == <<pw_dump, target_device_substring>>
EmptyGraph == [nodes |-> <<>>, links |-> <<>>]
NoResult == [color |-> "", text |-> "", rate |-> 0, tooltip |-> <<>>]

Plain(m) == Msg(m, <<>>, NoId, <<>>, "")

\* return self._format_output(...)
Return(log, color, text, rate) ==
    /\ log_buffer' = log
    /\ result' = _format_output(log, color, text, rate)
    /\ history' = Append(history, _format_output(log, color, text, rate))
    /\ pc' = "done"
    /\ exc' = ""

\* an exception leaves run
Fail(log, e) ==
    /\ log_buffer' = log
    /\ exc' = e
    /\ pc' = "raised"
    /\ UNCHANGED <<result, history>>

Continue(log, next) ==
    /\ log_buffer' = log
    /\ pc' = next
    /\ UNCHANGED <<result, history, exc>>

\* raw_graph = self._get_pipewire_graph(); if not raw_graph: return Err
GetGraph ==
    /\ pc = "start"
    /\ LET log == Append(log_buffer, Plain("-> Running 'pw-dump'"))
       IN  IF ~pw_dump.ok
           THEN Return(Append(log, Plain("Error getting or parsing PipeWire graph")),
                       "Red", "Err", 0)
           ELSE IF pw_dump.data = <<>>
           THEN Return(log, "Red", "Err", 0)
           ELSE Continue(log, "build")
    /\ UNCHANGED <<Inputs, Locals, Helper>>

\* graph = PipeWireGraph(raw_graph)
BuildGraph ==
    /\ pc = "build"
    /\ LET g == PipeWireGraph(pw_dump.data)
       IN  IF g.exc # ""
           THEN Fail(log_buffer, g.exc) /\ UNCHANGED graph
           ELSE /\ graph' = [nodes |-> g.nodes, links |-> g.links]
                /\ Continue(log_buffer, "lookup")
    /\ UNCHANGED <<Inputs, target_node, device_freq, relevant_sources, Helper>>

\* 1. Find the target device node.
FindTarget ==
    /\ pc = "lookup"
    /\ LET log == Append(log_buffer,
                         Msg("-> Searching for device", target_device_substring, NoId, <<>>, ""))
           found == _find_node_by_name(graph, target_device_substring)
       IN  IF found.exc # ""
           THEN Fail(log, found.exc) /\ UNCHANGED target_node
           ELSE IF found.found = <<>>
           THEN /\ Return(Append(log, Plain("Device not found.")), "White", "N/A", 0)
                /\ UNCHANGED target_node
           ELSE /\ target_node' = found.found
                /\ Continue(log, "rate")
    /\ UNCHANGED <<Inputs, graph, device_freq, relevant_sources, Helper>>

\* device_freq = self._get_node_sample_rate(target_node)
ResolveRate ==
    /\ pc = "rate"
    /\ LET log == Append(log_buffer, Plain("Device found."))
           freq == _get_node_sample_rate(target_node[1])
       IN  IF freq.exc # ""
           THEN Fail(log, freq.exc) /\ UNCHANGED device_freq
           ELSE /\ device_freq' = freq
                /\ IF ~Truthy(freq)
                   THEN Return(Append(log, Plain("Could not determine sample rate for the target device.")),
                               "Red", "Err", 0)
                   ELSE Continue(log, "volume")
    /\ UNCHANGED <<Inputs, graph, target_node, relevant_sources, Helper>>

\* mutant of CheckTargetVolume: the volume of the device is not checked
CheckTargetVolumeSkipped ==
    /\ pc = "volume"
    /\ Continue(log_buffer, "sources")
    /\ UNCHANGED <<Inputs, Locals, Helper>>

\* 2. Check target device volume.
CheckTargetVolume ==
    /\ pc = "volume"
    /\ LET v == _is_volume_at_100(target_node[1])
           log == log_buffer \o v.log
       IN  IF v.exc # "" THEN Fail(log, v.exc)
           ELSE IF ~v.ok THEN Return(log, "Red", "Vol Err", 0)
           ELSE Continue(log, "sources")
    /\ UNCHANGED <<Inputs, Locals, Helper>>

\* 3. Find and filter sources connected to the target device.
FindSources ==
    /\ pc = "sources"
    /\ LET log == Append(log_buffer,
                         Msg("-> Finding sources connected to device ID", <<>>,
                             IdOf(target_node[1]), <<>>, ""))
       IN  \E source_nodes \in _get_connected_source_nodes(graph, target_node[1].id) :
               IF source_nodes.exc # ""
               THEN Fail(log, source_nodes.exc) /\ UNCHANGED relevant_sources
               ELSE LET f == _filter_sources(source_nodes.nodes)
                        log2 == Append(log, Plain("-> Filtering sources...")) \o f.log
                    IN  IF f.exc # ""
                        THEN Fail(log2, f.exc) /\ UNCHANGED relevant_sources
                        ELSE /\ relevant_sources' = f.nodes
                             /\ Continue(log2, "count")
    /\ UNCHANGED <<Inputs, graph, target_node, device_freq, Helper>>

\* mutant of TooMany: two sources pass
TooManyAboveTwo(n) == n > 2

\* len(relevant_sources) > 1
TooMany(n) == n > 1

\* 4. Handle different source count scenarios.
CountSources ==
    /\ pc = "count"
    /\ IF relevant_sources = <<>>
       THEN Return(Append(log_buffer, Plain("Device is idle (no relevant sources connected).")),
                   "White", "Idle", 0)
       ELSE IF TooMany(Len(relevant_sources))
       THEN Return(Append(log_buffer,
                          Msg("Device has {n} active sources. Skipping detailed check.",
                              <<>>, NoId, <<Len(relevant_sources)>>, "")),
                   "Red", "Src Err", 0)
       ELSE Continue(log_buffer, "source_volume")
    /\ UNCHANGED <<Inputs, Locals, Helper>>

\* 5. Process the single relevant source: its volume
CheckSourceVolume ==
    /\ pc = "source_volume"
    /\ LET v == _is_volume_at_100(relevant_sources[1])
           log == Append(log_buffer, Plain("Found 1 relevant source.")) \o v.log
       IN  IF v.exc # "" THEN Fail(log, v.exc)
           ELSE IF ~v.ok THEN Return(log, "Red", "Vol Err", 0)
           ELSE Continue(log, "compare")
    /\ UNCHANGED <<Inputs, Locals, Helper>>

\* mutant of Mismatch: an unknown source rate differs from the device rate
MismatchWithUnknown(dev, src) == ~src.some \/ dev.n # src.n

\* if source_freq and device_freq != source_freq
Mismatch(dev, src) == Truthy(src) /\ dev.n # src.n

\* 5. and 6.: its rate against the device's, and the report of the frequency
CompareRate ==
    /\ pc = "compare"
    /\ LET source == relevant_sources[1]
           source_freq == _get_node_sample_rate(source)
           source_name == _get_node_descriptive_name(source)
           log == Append(log_buffer,
                         Msg("-> Checking source", source_name.s, IdOf(source),
                             <<device_freq.n>> \o
                                 (IF source_freq.some THEN <<source_freq.n>> ELSE <<>>),
                             IF source_freq.some THEN "" ELSE "None"))
       IN  IF source_freq.exc # "" THEN Fail(log_buffer, source_freq.exc)
           ELSE IF source_name.exc # "" THEN Fail(log_buffer, source_name.exc)
           ELSE IF Mismatch(device_freq, source_freq)
           THEN Return(Append(log, Msg("Mismatch found!", <<>>, NoId,
                                       <<device_freq.n, source_freq.n>>, "")),
                       "Red", "Freq Err", 0)
           ELSE Return(Append(log, Plain("All source sample rates match the device rate.")),
                       "White", "{device_freq}", device_freq.n)
    /\ UNCHANGED <<Inputs, Locals, Helper>>

\* run is called again on the same monitor, pw-dump yielding the same dump
Invoke ==
    /\ pc = "done"
    /\ Len(history) < MaxRuns
    /\ pc' = "start"
    /\ graph' = EmptyGraph
    /\ target_node' = <<>>
    /\ device_freq' = NoFreq
    /\ relevant_sources' = <<>>
    /\ UNCHANGED <<Inputs, log_buffer, result, history, exc, Helper>>

Next ==
    \/ GetGraph
    \/ BuildGraph
    \/ FindTarget
    \/ ResolveRate
    \/ CheckTargetVolume
    \/ FindSources
    \/ CountSources
    \/ CheckSourceVolume
    \/ CompareRate
    \/ Invoke

----------------------------------------------------------------------------
(* The dumps run is checked on: well-shaped pw-dump output, identities
   unique within a dump; two of them (2 and 10, 2 and 18) share a slot of
   the set of source ids *)

T_Node == <<"P", "i", "p", "e", "W", "i", "r", "e", ":", "I", "n", "t", "e", "r", "f", "a", "c", "e", ":", "N", "o", "d", "e">>
T_Link == <<"P", "i", "p", "e", "W", "i", "r", "e", ":", "I", "n", "t", "e", "r", "f", "a", "c", "e", ":", "L", "i", "n", "k">>
T_Port == <<"P", "i", "p", "e", "W", "i", "r", "e", ":", "I", "n", "t", "e", "r", "f", "a", "c", "e", ":", "P", "o", "r", "t">>

N_hw == <<"h", "w">>
N_aw == <<"a", "w">>
N_mpv == <<"m", "<", "v">>

Rates == {44100, 48000}

\* params of the device: the rate in each place the code reads, and none
DeviceFormats ==
    {<<List(<<Fmt(Audio(IntRate(48000)), AbsentRate)>>), AbsentGroup>>,
     <<List(<<Fmt(NoAudio, IntRate(44100))>>), List(<<Fmt(NoAudio, IntRate(48000))>>)>>,
     <<List(<<>>), List(<<Fmt(NoAudio, RangeRate(48000))>>)>>,
     <<List(<<Fmt(Audio(IntRate(0)), IntRate(48000))>>), AbsentGroup>>,
     <<AbsentGroup, AbsentGroup>>}

DeviceProps ==
    {AbsentGroup,
     List(<<PropSet(Vol(100), Chan(<<100, 100>>))>>),
     List(<<PropSet(Vol(100), AbsentChan), PropSet(AbsentVol, Chan(<<100, 50>>))>>)}

Devices ==
    {Item(1, T_Node, NodeInfo(Names(<<>>, <<>>, N_hw), "suspended", Params(f[1], f[2], p))) :
        f \in DeviceFormats, p \in DeviceProps}

SourceFormats ==
    {<<List(<<Fmt(Audio(IntRate(48000)), AbsentRate)>>), AbsentGroup>>,
     <<List(<<Fmt(NoAudio, IntRate(44100))>>), AbsentGroup>>,
     <<AbsentGroup, List(<<Fmt(NoAudio, IntRate(0))>>)>>,
     <<AbsentGroup, AbsentGroup>>}

SourcesA ==
    {Item(2, T_Node, NodeInfo(Names(<<>>, <<>>, N_aw), st, Params(f[1], f[2], p))) :
        st \in {"running", "suspended"}, f \in SourceFormats,
        p \in {AbsentGroup, List(<<PropSet(Vol(50), AbsentChan)>>)}}

SourcesB ==
    {Item(10, T_Node, NodeInfo(Names(N_mpv, <<>>, <<>>), st, Params(f[1], f[2], p))) :
        st \in {"running", "Running"},
        f \in {<<List(<<Fmt(NoAudio, IntRate(r))>>), AbsentGroup>> : r \in Rates},
        p \in {List(<<PropSet(AbsentVol, Chan(<<100>>))>>)}}

Link(id, out, inp) == Item(id, T_Link, LinkInfo(out, inp))

\* the links of a dump: none, one, two sources, the same source twice, a
\* source that is no node, a link without output-node-id or without info
LinkSets ==
    {<<>>,
     <<Link(4, End(2), End(1))>>,
     <<Link(4, End(2), End(1)), Link(5, End(10), End(1))>>,
     <<Link(4, End(10), End(1)), Link(5, End(10), End(1)), Link(6, End(10), End(2))>>,
     <<Link(4, End(18), End(1)), Link(5, End(2), End(1)), Item(6, T_Link, AbsentInfo)>>,
     <<Link(4, End(10), End(1)), Link(5, AbsentEnd, End(1)), Link(6, End(2), End(1))>>,
     <<Link(4, End(1), End(2)), Link(5, End(2), AbsentEnd)>>}

Port == Item(0, T_Port, AbsentInfo)

\* dumps without the device: the empty dump, a dump without nodes, sources only
DumpsWithoutDevice ==
    {<<>>, <<Port>>}
    \cup {<<a, b, Link(4, End(10), End(2))>> : a \in SourcesA, b \in SourcesB}
\* the device before its sources
DumpsDeviceFirst ==
    {<<d, a, Port, b>> \o ls : d \in Devices, a \in SourcesA, b \in SourcesB, ls \in LinkSets}
\* the device after its sources, whose names the shorter substrings match
DumpsDeviceLast ==
    {<<Link(4, End(2), End(1)), b, a, d>> : d \in Devices, a \in SourcesA,
        b \in {x \in SourcesB : x.info.state = "running" /\ x.info.params.Format.items[1].rate = IntRate(48000)}}

Acquired(d) == [ok |-> TRUE, data |-> d]
\* pw-dump could not run, or its output is no JSON
Failed == [ok |-> FALSE, data |-> <<>>]

\* what pw-dump yields, with the substring the monitor was made for
RunInputs ==
    {<<Failed, N_hw>>}
    \cup {<<Acquired(d), sub>> : d \in DumpsWithoutDevice, sub \in {<<>>, N_hw}}
    \cup {<<Acquired(d), N_hw>> : d \in DumpsDeviceFirst}
    \cup {<<Acquired(d), sub>> : d \in DumpsDeviceLast, sub \in {<<>>, <<"w">>, N_hw, <<"w", "h">>}}

InitMonitor ==
    /\ log_buffer = <<>>
    /\ graph = EmptyGraph
    /\ target_node = <<>>
    /\ device_freq = NoFreq
    /\ relevant_sources = <<>>
    /\ result = NoResult
    /\ history = <<>>
    /\ exc = ""

Init ==
    /\ \E inp \in RunInputs : pw_dump = inp[1] /\ target_device_substring = inp[2]
    /\ InitMonitor
    /\ pc = "start"
    /\ arg = <<>>
    /\ ret = <<>>

Spec == Init /\ [][Next]_vars

----------------------------------------------------------------------------
(* run on dumps whose records are absent, null or wrongly shaped *)

GoodFormat == List(<<Fmt(Audio(IntRate(48000)), AbsentRate)>>)

MalformedDeviceInfos ==
    {NodeInfo(Names(<<>>, <<>>, N_hw), "suspended", Params(GoodFormat, AbsentGroup, AbsentGroup)),
     NullInfo,
     NodeInfo(NullNames, "suspended", Params(GoodFormat, AbsentGroup, AbsentGroup)),
     NodeInfo(Names(<<>>, <<>>, N_hw), "suspended", NullParams),
     NodeInfo(Names(<<>>, <<>>, N_hw), "suspended", Params(List(<<NullFmt>>), AbsentGroup, AbsentGroup)),
     NodeInfo(Names(<<>>, <<>>, N_hw), "suspended",
              Params(List(<<Fmt(NullAudio, IntRate(48000))>>), AbsentGroup, AbsentGroup)),
     NodeInfo(Names(<<>>, <<>>, N_hw), "suspended", Params(NullGroup, List(<<NullFmt>>), AbsentGroup)),
     NodeInfo(Names(<<>>, <<>>, N_hw), "suspended",
              Params(GoodFormat, AbsentGroup, List(<<NullPropSet>>))),
     NodeInfo(Names(<<>>, <<>>, N_hw), "suspended",
              Params(GoodFormat, AbsentGroup, List(<<PropSet(Vol(100), NumChan(50))>>)))}

MalformedSourceInfos ==
    {NodeInfo(Names(<<>>, <<>>, N_aw), "running", Params(GoodFormat, AbsentGroup, AbsentGroup)),
     NodeInfo(Names(<<>>, N_aw, <<>>), "running", Params(List(<<Fmt(NoAudio, IntRate(44100))>>), AbsentGroup, AbsentGroup)),
     NullInfo,
     NodeInfo(NullNames, "running", AbsentParams),
     NodeInfo(Names(<<>>, <<>>, N_aw), "running", NullParams),
     NodeInfo(Names(<<>>, <<>>, N_aw), "running", Params(List(<<NullFmt>>), AbsentGroup, AbsentGroup)),
     NodeInfo(Names(<<>>, <<>>, N_aw), "running",
              Params(AbsentGroup, AbsentGroup, List(<<PropSet(Vol(100), AbsentChan), NullPropSet>>)))}

MalformedLinkSets ==
    {<<Link(4, End(2), End(1))>>,
     <<Link(4, End(2), End(1)), Item(5, T_Link, NullInfo)>>,
     <<Link(4, End(2), End(1)), NoIdItem(T_Link, AbsentInfo)>>,
     <<Link(4, End(2), End(1)), NoIdItem(T_Port, AbsentInfo)>>,
     <<Link(4, End(2), End(1)), NoIdItem(T_Node, AbsentInfo)>>,
     <<>>}

MalformedSnapshots ==
    {<<Item(1, T_Node, d), Item(2, T_Node, a)>> \o ls :
        d \in MalformedDeviceInfos, a \in MalformedSourceInfos, ls \in MalformedLinkSets}
    \cup {ls \o <<Item(2, T_Node, a), Item(1, T_Node, d)>> :
        d \in MalformedDeviceInfos, a \in MalformedSourceInfos, ls \in MalformedLinkSets}

InitMalformed ==
    /\ pw_dump \in {Failed} \cup {Acquired(d) : d \in MalformedSnapshots}
    /\ target_device_substring \in {N_hw, <<>>}
    /\ InitMonitor
    /\ pc = "start"
    /\ arg = <<>>
    /\ ret = <<>>

SpecMalformed == InitMalformed /\ [][Next]_vars

----------------------------------------------------------------------------
(* The helpers called on their own *)

Monitor == <<log_buffer, graph, target_node, device_freq, relevant_sources, result,
             history, exc>>

InitHelper ==
    /\ pw_dump = Failed
    /\ target_device_substring = <<>>
    /\ InitMonitor
    /\ ret = <<>>

\* entries of a parameter group
MaxEntries == 2
\* entries of channelVolumes
MaxChannels == 2
\* links of a graph
MaxLinks == 3
\* elements of a dump
MaxItems == 2

RECURSIVE SeqsUpTo(_, _)
SeqsUpTo(S, n) ==
    IF n = 0 THEN {<<>>}
    ELSE SeqsUpTo(S, n - 1) \cup {Append(q, x) : q \in {r \in SeqsUpTo(S, n - 1) : Len(r) = n - 1}, x \in S}

RateValues ==
    {AbsentRate, NullRate, IntRate(44100), IntRate(48000), FloatRate(48000),
     RangeRate(96000), EmptyRange}

FormatEntries ==
    {Fmt(a, r) : a \in {NoAudio} \cup {Audio(x) : x \in RateValues}, r \in RateValues}
EnumEntries == {Fmt(NoAudio, r) : r \in RateValues}
Filler == Fmt(Audio(IntRate(8000)), IntRate(8000))

Groups(entries) ==
    {AbsentGroup, NullGroup, List(<<>>)}
    \cup {List(<<e>> \o rest) : e \in entries, rest \in SeqsUpTo({Filler}, MaxEntries - 1)}

RateNodes ==
    {Item(1, T_Node, NodeInfo(Names(<<>>, <<>>, N_hw), "running", Params(f, e, AbsentGroup))) :
        f \in Groups(FormatEntries), e \in Groups(EnumEntries)}
    \cup {Item(1, T_Node, AbsentInfo),
          Item(1, T_Node, NodeInfo(Names(<<>>, <<>>, N_hw), "running", AbsentParams))}

InitRate == InitHelper /\ pc = "call" /\ arg \in RateNodes

CallSampleRate ==
    /\ pc = "call"
    /\ ret' = _get_node_sample_rate(arg)
    /\ pc' = "returned"
    /\ UNCHANGED <<Inputs, Monitor, arg>>

SpecRate == InitRate /\ [][CallSampleRate]_vars

Volumes == {50, 100}
ChannelLists == {Chan(xs) : xs \in SeqsUpTo(Volumes, MaxChannels)}
PropSets ==
    {PropSet(v, AbsentChan) : v \in {AbsentVol} \cup {Vol(x) : x \in Volumes}}
    \cup {PropSet(v, c) : v \in {AbsentVol, Vol(100)}, c \in ChannelLists}
    \cup {PropSet(Vol(50), Chan(<<50>>))}

VolumeNodes ==
    {Item(2, T_Node, NodeInfo(Names(<<>>, N_mpv, N_aw), "running", Params(AbsentGroup, AbsentGroup, p))) :
        p \in {AbsentGroup, NullGroup} \cup {List(q) : q \in SeqsUpTo(PropSets, MaxEntries)}}
    \cup {Item(2, T_Node, AbsentInfo)}

InitVolume == InitHelper /\ pc = "call" /\ arg \in VolumeNodes

\* the call appends what the helper logs to the buffer
CallVolume ==
    /\ pc = "call"
    /\ ret' = _is_volume_at_100(arg)
    /\ log_buffer' = log_buffer \o _is_volume_at_100(arg).log
    /\ pc' = "returned"
    /\ UNCHANGED <<Inputs, graph, target_node, device_freq, relevant_sources, result,
                   history, exc, arg>>

SpecVolume == InitVolume /\ [][CallVolume]_vars

BareNode(id) == Item(id, T_Node, AbsentInfo)
LinkShapes ==
    {LinkInfo(o, i) : o \in {AbsentEnd, End(2), End(10), End(18)}, i \in {End(1), End(2)}}
    \cup {AbsentInfo, LinkInfo(End(2), AbsentEnd)}
NodeSets == {<<BareNode(1), BareNode(2), BareNode(10)>>, <<BareNode(10), BareNode(1)>>, <<BareNode(1)>>}

\* a graph whose k-th link has identity 3 + k
TopologyGraphs ==
    {[nodes |-> ns, links |-> [k \in 1..Len(ls) |-> Item(3 + k, T_Link, ls[k])]] :
        ns \in NodeSets, ls \in SeqsUpTo(LinkShapes, MaxLinks)}

InitTopology == InitHelper /\ pc = "call" /\ arg \in TopologyGraphs

CallConnectedSources ==
    /\ pc = "call"
    /\ ret' \in _get_connected_source_nodes(arg, 1)
    /\ pc' = "returned"
    /\ UNCHANGED <<Inputs, Monitor, arg>>

SpecTopology == InitTopology /\ [][CallConnectedSources]_vars

T_Both == <<"N", "o", "d", "e", "/", "L", "i", "n", "k">>
DumpItems ==
    {Item(id, t, AbsentInfo) : id \in {1, 2}, t \in {<<>>, T_Node, T_Link, T_Port, T_Both}}
    \cup {NoIdItem(t, AbsentInfo) : t \in {<<>>, T_Node, T_Link, T_Port, T_Both}}

\* Dumps of elements with unique identities, or without identity
GraphDumps ==
    {d \in SeqsUpTo(DumpItems, MaxItems) :
        \A i, j \in 1..Len(d) : (i # j /\ d[i].hasId /\ d[j].hasId) => d[i].id # d[j].id}

InitGraph == InitHelper /\ pc = "call" /\ arg \in GraphDumps

CallPipeWireGraph ==
    /\ pc = "call"
    /\ ret' = PipeWireGraph(arg)
    /\ pc' = "returned"
    /\ UNCHANGED <<Inputs, Monitor, arg>>

SpecGraph == InitGraph /\ [][CallPipeWireGraph]_vars

----------------------------------------------------------------------------
(* What the specification says of a dump, stated on the dump itself *)

\* a sample rate is a positive integer, or unknown
Known(r) == r.some /\ r.n > 0

\* a rate value is a direct integer or a range object with a default
Decode(v) == IF v.k \in {"int", "range"} THEN Some(v.n) ELSE None

\* section 4.2, sample rate: the first entry of the active format, its audio
\* sub-object before its own rate; else the first enumerated format
SampleRate(node) ==
    LET active == node.info.params.Format
        enum == node.info.params.EnumFormat
    IN  IF active.k = "list" /\ Len(active.items) > 0
        THEN IF active.items[1].audio.k = "dict"
             THEN Decode(active.items[1].audio.rate)
             ELSE Decode(active.items[1].rate)
        ELSE IF enum.k = "list" /\ Len(enum.items) > 0
        THEN Decode(enum.items[1].rate)
        ELSE None

\* section 4.2, volume: an entry with a master volume or a channel volume
\* that is not 1.0
Violates(e) ==
    \/ e.volume.k = "num" /\ e.volume.x # 100
    \/ e.channelVolumes.k = "list"
       /\ \E j \in 1..Len(e.channelVolumes.xs) : e.channelVolumes.xs[j] # 100
AtUnity(node) ==
    \A i \in 1..Len(node.info.params.Props.items) : ~Violates(node.info.params.Props.items[i])
\* the value(s) of a violating entry
Offending(e) ==
    IF e.volume.k = "num" /\ e.volume.x # 100 THEN <<e.volume.x>> ELSE e.channelVolumes.xs

Data == pw_dump.data
NodeIndexes == {i \in 1..Len(Data) : Contains(S_Node, Data[i].type)}
LinkIndexes == {i \in 1..Len(Data) : Contains(S_Link, Data[i].type)}
Matching == {i \in NodeIndexes : Contains(target_device_substring, Data[i].info.props.name)}
HasTarget == pw_dump.ok /\ Matching # {}
\* section 4.5 step 1: the first node whose name contains the substring
TheTarget == Data[CHOOSE i \in Matching : \A j \in Matching : i <= j]

\* section 4.3 and 4.4: the running nodes linked into the target
RunningUpstream ==
    {i \in NodeIndexes :
        /\ Data[i].info.state = "running"
        /\ \E j \in LinkIndexes :
              /\ Data[j].info.input = End(TheTarget.id)
              /\ Data[j].info.output = End(Data[i].id)}
TheSource == Data[CHOOSE i \in RunningUpstream : TRUE]

Ends(text) == pc' = "done" /\ result'.text = text

StepDecides ==
    /\ pc = "start" => pc' \in {"build", "done"}
    /\ pc = "build" => pc' = "lookup"
    /\ pc = "lookup" =>
          IF ~HasTarget THEN Ends("N/A") ELSE pc' = "rate" /\ target_node' = <<TheTarget>>
    /\ pc = "rate" =>
          IF ~Known(SampleRate(TheTarget)) THEN Ends("Err") ELSE pc' = "volume"
    /\ pc = "volume" =>
          IF ~AtUnity(TheTarget) THEN Ends("Vol Err") ELSE pc' = "sources"
    /\ pc = "sources" => pc' = "count"
    /\ pc = "count" =>
          IF RunningUpstream = {} THEN Ends("Idle")
          ELSE IF Cardinality(RunningUpstream) > 1 THEN Ends("Src Err")
          ELSE pc' = "source_volume"
    /\ pc = "source_volume" =>
          IF ~AtUnity(TheSource) THEN Ends("Vol Err") ELSE pc' = "compare"
    /\ pc = "compare" =>
          IF Known(SampleRate(TheSource)) /\ SampleRate(TheSource) # SampleRate(TheTarget)
          THEN Ends("Freq Err")
          ELSE Ends("{device_freq}")
    /\ (pc # "done" /\ pc' = "done") => history' = Append(history, result')
    /\ pc = "done" => (result' = result /\ history' = history /\ pc' = "start")

\* C1: run takes its checks in the order lookup, target rate, target volume,
\* source count, source volume, rate comparison; the first check that fails
\* ends the invocation with its outcome, a check that passes leads to the
\* next one, each invocation returns exactly one outcome, and nothing
\* changes an outcome once returned.
FirstFailingCheckDecides == [][StepDecides]_vars

\* C1, reached: a device with a known rate and a volume not at unity gives
\* Vol Err although two running sources are linked into it
VolumeErrorWithSeveralSources ==
    /\ pc = "done"
    /\ HasTarget
    /\ Known(SampleRate(TheTarget))
    /\ ~AtUnity(TheTarget)
    /\ Cardinality(RunningUpstream) >= 2
    /\ result.text = "Vol Err"

\* C2: on a dump that was acquired, of any size, in which no node's name
\* contains the substring, run returns N/A (DeviceNotFound).
NoMatchGivesNotFound ==
    (pc = "done" /\ pw_dump.ok /\ Matching = {}) => result.text = "N/A"

\* C3 as stated: a found device with a resolvable rate and two or more
\* running sources linked into it gives Src Err.
SeveralSourcesGiveSrcErr ==
    (/\ pc = "done"
     /\ HasTarget
     /\ Known(SampleRate(TheTarget))
     /\ Cardinality(RunningUpstream) >= 2) => result.text = "Src Err"

\* C3, amended: a found device with a resolvable rate and its volume at
\* unity, and two or more running sources linked into it, gives Src Err
\* whatever the rates and volumes of the sources.
SeveralSourcesOfUnityDeviceGiveSrcErr ==
    (/\ pc = "done"
     /\ HasTarget
     /\ Known(SampleRate(TheTarget))
     /\ AtUnity(TheTarget)
     /\ Cardinality(RunningUpstream) >= 2) => result.text = "Src Err"

\* C3, reached: Src Err with two running sources of different rates, one of
\* them with a volume not at unity
SrcErrWithDifferingSources ==
    /\ pc = "done"
    /\ HasTarget
    /\ result.text = "Src Err"
    /\ \E i, j \in RunningUpstream :
          /\ SampleRate(Data[i]) # SampleRate(Data[j])
          /\ ~AtUnity(Data[i])
          /\ AtUnity(Data[j])

\* C4: with the device found, its rate known and its volume at unity, and
\* exactly one running source, at unity, linked into it, run returns Freq Err
\* exactly when the source's rate is known and differs from the device's, and
\* otherwise returns the device's rate.
SingleSourceRateComparison ==
    (/\ pc = "done"
     /\ HasTarget
     /\ Known(SampleRate(TheTarget))
     /\ AtUnity(TheTarget)
     /\ Cardinality(RunningUpstream) = 1
     /\ AtUnity(TheSource))
    => IF Known(SampleRate(TheSource)) /\ SampleRate(TheSource) # SampleRate(TheTarget)
       THEN result.text = "Freq Err"
       ELSE /\ result.text = "{device_freq}"
            /\ result.color = "White"
            /\ result.rate = SampleRate(TheTarget).n

\* C4, reached: the rate of the single source is unknown, that of the device
\* is returned
UnknownSourceRateIsConsistent ==
    /\ pc = "done"
    /\ HasTarget
    /\ Cardinality(RunningUpstream) = 1
    /\ ~Known(SampleRate(TheSource))
    /\ result.text = "{device_freq}"
    /\ result.rate = 48000

\* C5: no invocation of run is left by an exception raised while the
\* attributes of the device or of its sources are resolved.
ResolutionNeverRaises == ~(pc = "raised" /\ target_node # <<>>)

\* C6: PipeWireGraph never fails, and no element of the dump is in both the
\* node index and the link index.
InNodes(item) == \E i \in 1..Len(ret.nodes) : ret.nodes[i] = item
InLinks(item) == \E i \in 1..Len(ret.links) : ret.links[i] = item
GraphPartitionsTheDump ==
    pc = "returned" =>
        /\ ret.exc = ""
        /\ \A i \in 1..Len(arg) : ~(InNodes(arg[i]) /\ InLinks(arg[i]))

\* C7: _get_node_sample_rate returns the rate of the first active format,
\* read under its audio sub-object when it has one and from its own rate
\* field otherwise, whatever the enumerated formats hold; with no active
\* format, the rate of the first enumerated format; the default of a range
\* object; and unknown when that place holds no usable value.
RateResolution == pc = "returned" => ret = SampleRate(arg)

\* C7, reached: the default of a range under audio is returned, not the
\* top-level rate nor the enumerated one
AudioRangeDefaultWins ==
    /\ pc = "returned"
    /\ arg.info.params.Format.k = "list"
    /\ Len(arg.info.params.Format.items) > 1
    /\ arg.info.params.Format.items[1] = Fmt(Audio(RangeRate(96000)), IntRate(48000))
    /\ arg.info.params.EnumFormat = List(<<Fmt(NoAudio, IntRate(44100))>>)
    /\ ret = Some(96000)

\* C8: _is_volume_at_100 returns True exactly when no entry of Props has a
\* volume or a channel volume other than 1.0 (so it does without Props),
\* whichever entry that is, and on False has logged one message with the
\* value(s) of the first such entry.
VolumeCheck ==
    pc = "returned" =>
        LET items == arg.info.params.Props.items
            bad == {i \in 1..Len(items) : Violates(items[i])}
        IN  /\ ret.exc = ""
            /\ ret.ok <=> AtUnity(arg)
            /\ ret.ok => log_buffer = <<>>
            /\ ~ret.ok =>
                  /\ Len(log_buffer) = 1
                  /\ log_buffer[1].vals =
                        Offending(items[CHOOSE i \in bad : \A j \in bad : i <= j])

\* C8, reached: the first entry is at unity, a channel of the second is not
LaterEntryFails ==
    /\ pc = "returned"
    /\ Len(arg.info.params.Props.items) = 2
    /\ ~Violates(arg.info.params.Props.items[1])
    /\ arg.info.params.Props.items[2].channelVolumes.k = "list"
    /\ ~ret.ok
    /\ log_buffer[1].vals = <<100, 50>>

\* C9: _get_connected_source_nodes returns the nodes of the graph that are
\* the output end of a link whose input end is the target, each once, and
\* nothing else.
Upstream(g, t) ==
    {i \in 1..Len(g.nodes) :
        \E j \in 1..Len(g.links) :
            /\ g.links[j].info.input = End(t)
            /\ g.links[j].info.output = End(g.nodes[i].id)}
TopologyResolution ==
    pc = "returned" =>
        /\ ret.exc = ""
        /\ {ret.nodes[k] : k \in 1..Len(ret.nodes)} = {arg.nodes[i] : i \in Upstream(arg, 1)}
        /\ Len(ret.nodes) = Cardinality(Upstream(arg, 1))

\* C9, reached: two links from node 2, a link from an identity that is no
\* node and nothing else into the target: node 2, once
TwoLinksOneSource ==
    /\ pc = "returned"
    /\ Len(arg.links) = 3
    /\ arg.links[1].info = LinkInfo(End(2), End(1))
    /\ arg.links[2].info = LinkInfo(End(18), End(1))
    /\ arg.links[3].info = LinkInfo(End(2), End(1))
    /\ ret.nodes = <<BareNode(2)>>

\* C10: every invocation of run on the one monitor and the same dump returns
\* the same string, status and diagnostic log.
InvocationsAgree == \A i, j \in 1..Len(history) : history[i] = history[j]

====
